---- MODULE Spec2Model ----
(***************************************************************************)
(* Model of the Tai/Xiu betting bot (src/bot.py).                          *)
(*                                                                         *)
(* Two threads share the module-level dict `data` without any lock around  *)
(* its reads and writes (data_lock only guards the file write inside       *)
(* save_data):                                                             *)
(*   - the scheduler thread (scheduler_loop), variable s;                  *)
(*   - the dispatcher thread that runs one update handler at a time,       *)
(*     variable h.                                                         *)
(* A thread can be descheduled wherever it calls save_data (lock + file    *)
(* I/O) and between the read and the write of an in-place update of a      *)
(* shared counter (balance += x, round id = id + 1).  The code between two *)
(* such points is one action.  Wall-clock time is abstracted: the          *)
(* scheduler's sleeps end at an arbitrary moment.                          *)
(*                                                                         *)
(* Left out: the Telegram messages themselves (h.reply keeps which reply   *)
(* a handler sent), the history timestamp, the force_next callback (no     *)
(* button emits it) and a restart of the process from data.json.  A        *)
(* save_data that raises is part of LiveSpec only, in the two places of    *)
(* the scheduler where the round status has just been written.             *)
(***************************************************************************)
EXTENDS Integers, Sequences, FiniteSets, TLC

\* ---------------------------------------------------------------- constants
INITIAL_BONUS == 10000
MAX_BONUS_BET == 1000
MIN_WITHDRAW == 100000

\* ------------------------------------------------------------------- bounds
\* rounds opened in one run
MaxRound == 2
\* commands the dispatcher thread accepts in one run
MaxCmds == 3

\* ------------------------------------------------------------------- inputs
Users == {1, 2}
ADMINS == {9}
Callers == Users \cup ADMINS
Sides == {"T", "X"}
BetAmounts == {0, 1000, 2000}
DepositAmounts == {100000}
WithdrawAmounts == {50000, 100000}
SetNextValues == {"T", "X", "NONE"}
\* P(T) in percent
BiasValues == {50, 100}
\* representative rolls: both jackpot triples, one Xiu total, one Tai total
DiceChoices == {<<1, 1, 1>>, <<6, 6, 6>>, <<1, 2, 3>>, <<4, 5, 6>>}

\* data (the dict persisted in data.json), the two threads' local state,
\* and ncmd, the number of commands the dispatcher has taken up
VARIABLES users, round, bets, history, pot, deposit_requests, withdraw_requests, h, s, ncmd

data == <<users, round, bets, history, pot, deposit_requests, withdraw_requests>>
vars == <<users, round, bets, history, pot, deposit_requests, withdraw_requests, h, s, ncmd>>

\* ------------------------------------------------------------------ helpers
is_admin(user_id) == user_id \in ADMINS

NewUser == [balance |-> 0, first_bonus_given |-> FALSE, streak |-> 0, best_streak |-> 0]

ensure_user(us, u) == IF u \in DOMAIN us THEN us ELSE us @@ (u :> NewUser)

get_balance(us, u) == ensure_user(us, u)[u].balance

\* Python's round(): nearest integer, ties to the even one (n >= 0, d > 0)
RoundDiv(n, d) ==
    LET q == n \div d
        r == n % d
    IN  IF 2 * r < d THEN q
        ELSE IF 2 * r > d THEN q + 1
        ELSE IF q % 2 = 0 THEN q ELSE q + 1

RECURSIVE SumOver(_, _)
SumOver(f, S) ==
    IF S = {} THEN 0
    ELSE LET x == CHOOSE y \in S : TRUE
         IN  f[x] + SumOver(f, S \ {x})

Max(a, b) == IF a >= b THEN a ELSE b

\* the thread-local state of an idle handler thread / a scheduler between rounds
HIdle ==
    [pc |-> "idle", uid |-> 0, amt |-> 0, side |-> "-", rid |-> 0, tmp |-> 0, reply |-> "-"]

\* a handler returns after sending its reply (reply_text / query.answer)
Replied(r) == [HIdle EXCEPT !.reply = r]

SIdle ==
    [pc |-> "loop", tmp |-> 0, rid |-> 0, dice |-> <<>>, total |-> 0, side |-> "-",
     payouts |-> <<>>, winners |-> {}, todo |-> {}, cur |-> 0, pot_before |-> 0,
     pot_amount |-> 0, total_winner_stakes |-> 0, distributed_from_pot |-> 0,
     share |-> 0, jackpot |-> FALSE, live |-> TRUE, bets_for_round |-> <<>>, streak_before |-> <<>>]

\* data.json as earlier runs without a round leave it: a fresh install, or
\* user 1 after /start and user 2 after an admin /credit of 100000
KnownUsers ==
    (1 :> [NewUser EXCEPT !.balance = INITIAL_BONUS, !.first_bonus_given = TRUE])
    @@ (2 :> [NewUser EXCEPT !.balance = MIN_WITHDRAW])

\* the dispatcher takes up a command
TakeCmd == /\ h.pc = "idle" /\ ncmd < MaxCmds /\ ncmd' = ncmd + 1

\* the state a handler leaves when it takes a command up
Begin(pc) == [HIdle EXCEPT !.pc = pc]

Init ==
    /\ users \in {<<>>, KnownUsers}
    /\ ncmd = 0
    \* bias: P(T) in percent, -1 for None
    /\ round = [id |-> 0, status |-> "idle", forced_next |-> "None", bias |-> -1]
    /\ bets = <<>>
    /\ history = <<>>
    /\ pot = 0
    /\ deposit_requests = <<>>
    /\ withdraw_requests = <<>>
    /\ h = HIdle
    /\ s = SIdle

\* the scheduler is between the roll and the history append of round s.rid
Settling == s.pc \in {"pay_wr", "jp_wr"}

\* s.live tells whether the scheduler's local bets_for_round (line 177) still
\* is the dict under data['bets'][rid]; once open_new_round has rebound that
\* key (line 144) the local refers to the old dict, kept in s.bets_for_round
\* --------------------------------------------------------- open_new_round
\* the id written at line 139 from the id read before (tmp)
NextRoundId(tmp) == tmp + 1

\* lines 139-146 after the read of data['round']['id'] (kept in tmp).
\* Rebinding data['bets'][rid] leaves a scheduler that is settling the same
\* rid with the old dict object.
open_new_round(tmp) ==
    LET rid == NextRoundId(tmp)
    IN  /\ round' = [round EXCEPT !.id = rid, !.status = "open"]
        /\ bets' = [r \in DOMAIN bets \cup {rid} |-> IF r = rid THEN <<>> ELSE bets[r]]

\* ------------------------------------------------------------ scheduler
\* scheduler_loop, lines 594-598: the idle test and the read of the round id
S_Loop ==
    /\ s.pc = "loop"
    /\ IF round.status = "idle"
       THEN /\ round.id < MaxRound
            /\ s' = [s EXCEPT !.pc = "open_wr", !.tmp = round.id]
       ELSE s' = [s EXCEPT !.pc = "wait"]
    /\ UNCHANGED <<data, h, ncmd>>

\* open_new_round called from the scheduler: the write of the id and the rest
S_OpenWrite ==
    /\ s.pc = "open_wr"
    /\ open_new_round(s.tmp)
    /\ s' = [s EXCEPT !.pc = "wait", !.tmp = 0]
    /\ UNCHANGED <<users, history, pot, deposit_requests, withdraw_requests, h, ncmd>>

\* close_betting_and_roll lines 150-154, entered when the sleep of lines 605-609 ends
S_Close ==
    /\ s.pc = "wait"
    /\ IF round.status # "open"
       THEN /\ s' = [s EXCEPT !.pc = "loop"]
            /\ UNCHANGED round
       ELSE /\ round' = [round EXCEPT !.status = "closed"]
            /\ s' = [s EXCEPT !.pc = "roll", !.rid = round.id]
    /\ UNCHANGED <<users, bets, history, pot, deposit_requests, withdraw_requests, h, ncmd>>

\* a side test without the upper end of the Tai range
SideOfNoUpperEnd(dice) == IF 11 <= dice[1] + dice[2] + dice[3] THEN "T" ELSE "X"

\* lines 174, 262
SideOf(dice) ==
    LET total == dice[1] + dice[2] + dice[3]
    IN  IF 11 <= total /\ total <= 17 THEN "T" ELSE "X"

\* generate_dice_for_side: a triple of the wanted side, or, when the 200
\* attempts are exhausted, any triple
generate_dice_for_side(side, exhausted) ==
    IF exhausted THEN DiceChoices ELSE {d \in DiceChoices : SideOf(d) = side}

\* line 168: the sides random.random() < pT can select (bias = 100 * pT)
BiasSides(bias) ==
    {x \in Sides : (x = "T" /\ bias > 0) \/ (x = "X" /\ bias < 100)}

\* lines 157-172: the triples the roll can produce
PossibleDice(exhausted) ==
    IF round.forced_next \in {"T", "X"}
    THEN generate_dice_for_side(round.forced_next, exhausted)
    ELSE IF round.bias >= 0
    THEN UNION {generate_dice_for_side(sd, exhausted) : sd \in BiasSides(round.bias)}
    ELSE DiceChoices

\* a payout that leaves the stake out and pays the profit only
PayoutProfitOnly(amt) == RoundDiv(amt * 97, 100)

\* line 194
Payout(amt) == RoundDiv(amt * 197, 100)

\* line 202, one winner's term
Profit(amt) == RoundDiv(amt * 97, 100)

\* a cut that drops the fraction instead of rounding it
ProfitCutTruncated(winners_profit) == (winners_profit * 30) \div 100

\* line 203
ProfitCut(winners_profit) == RoundDiv(winners_profit * 30, 100)

\* add_balance line 119, the store of the sum computed from the balance read (tmp)
add_balance(us, u, tmp, amount) == [us EXCEPT ![u].balance = tmp + amount]

\* sub_balance line 124, the store of the difference computed from the balance read (tmp)
sub_balance(us, u, tmp, amount) == [us EXCEPT ![u].balance = tmp - amount]

\* lines 212-214
StreakWin(us, u) ==
    LET st == us[u].streak + 1
    IN  [us EXCEPT ![u].streak = st, ![u].best_streak = Max(@, st)]

\* lines 216-218, for every entry of payouts that is 0
StreakLose(us, losers) ==
    [u \in DOMAIN us \cup losers |->
        IF u \in losers THEN [ensure_user(us, u)[u] EXCEPT !.streak = 0] ELSE us[u]]

\* a triple test that knows the triple six only
IsTripleSix(dice) == dice = <<6, 6, 6>>

\* line 221
IsJackpotDice(dice) == dice = <<1, 1, 1>> \/ dice = <<6, 6, 6>>

\* a share that splits the pot evenly among the winners
ShareEvenSplit(pot_amount, stake, total_winner_stakes, nwinners) == pot_amount \div nwinners

\* line 230
Share(pot_amount, stake, total_winner_stakes, nwinners) ==
    IF total_winner_stakes > 0
    THEN RoundDiv(pot_amount * stake, total_winner_stakes)
    ELSE pot_amount \div nwinners

\* lines 234-245 (the timestamp is left out)
HistRec(loc, pot_after) ==
    [id |-> loc.rid, dice |-> loc.dice, total |-> loc.total, side |-> loc.side,
     bets |-> bets[loc.rid], payouts |-> loc.payouts, pot_before |-> loc.pot_before,
     pot_after |-> pot_after, distributed_from_pot |-> loc.distributed_from_pot]

\* a cleanup that keeps the forced side
CleanupKeepsForced(rnd) == [rnd EXCEPT !.status = "idle"]

\* lines 248-250: the round fields the cleanup stores
Cleanup(rnd) == [rnd EXCEPT !.status = "idle", !.forced_next = "None"]

\* The operators below continue close_betting_and_roll from a point of the
\* function up to its next save_data or balance read; us and pt are the
\* users and the pot as the action has left them so far, loc the locals.

\* lines 234-251: history record, cleanup, save.  data['bets'][rid] at line
\* 240 raises KeyError when the key is missing; the scheduler loop catches
\* it (line 617) and starts over.
Finish(us, pt, loc) ==
    /\ users' = us
    /\ pot' = pt
    /\ IF loc.rid \in DOMAIN bets
       THEN /\ history' = Append(history, HistRec(loc, pt))
            /\ bets' = [r \in DOMAIN bets \ {loc.rid} |-> bets[r]]
            /\ round' = Cleanup(round)
       ELSE UNCHANGED <<history, bets, round>>
    /\ s' = SIdle

\* lines 228-232: the next winner's share and the read of the balance in
\* add_balance, or the pot reset after the last one
ShareNext(us, pt, loc) ==
    IF loc.todo # {}
    THEN /\ \E u \in loc.todo :
              LET bfr == IF loc.live THEN bets[loc.rid] ELSE loc.bets_for_round
              IN  /\ users' = ensure_user(us, u)
                  /\ s' = [loc EXCEPT !.pc = "jp_wr", !.cur = u, !.tmp = get_balance(us, u),
                                      !.share = Share(loc.pot_amount, bfr[u].amount,
                                                      loc.total_winner_stakes,
                                                      Cardinality(loc.winners))]
         /\ pot' = pt
         /\ UNCHANGED <<round, bets, history>>
    ELSE Finish(us, 0, loc)

\* a resolution that goes from the payouts straight to the history record
JackpotSkipped(us, pt, loc) == Finish(us, pt, loc)

\* lines 219-227: the jackpot test and the totals it reads
JackpotNext(us, pt, loc) ==
    IF IsJackpotDice(loc.dice) /\ loc.winners # {}
    THEN LET bfr == IF loc.live THEN bets[loc.rid] ELSE loc.bets_for_round
         IN  ShareNext(us, pt,
                       [loc EXCEPT !.jackpot = TRUE, !.pot_amount = pt,
                                   !.distributed_from_pot = pt,
                                   !.total_winner_stakes =
                                       SumOver([u \in DOMAIN bfr |-> bfr[u].amount], loc.winners),
                                   !.todo = loc.winners])
    ELSE Finish(us, pt, loc)

\* lines 208-210: the next winner of payouts and the read of its balance in
\* add_balance, or the jackpot test after the last one
PayNext(us, pt, loc) ==
    IF loc.todo # {}
    THEN /\ \E u \in loc.todo :
              /\ users' = ensure_user(us, u)
              /\ s' = [loc EXCEPT !.pc = "pay_wr", !.cur = u, !.tmp = get_balance(us, u)]
         /\ pot' = pt
         /\ UNCHANGED <<round, bets, history>>
    ELSE JackpotNext(us, pt, loc)

\* lines 157-204: roll, partition, payouts, pot contribution; then the loop
\* of line 208 up to the first winner
S_Roll ==
    /\ s.pc = "roll"
    /\ \E exhausted \in BOOLEAN : \E dice \in PossibleDice(exhausted) :
         LET side == SideOf(dice)
             present == s.rid \in DOMAIN bets
             bfr == IF present THEN bets[s.rid] ELSE <<>>
             winners == {u \in DOMAIN bfr : bfr[u].side = side}
             losers == DOMAIN bfr \ winners
             payouts == [u \in DOMAIN bfr |-> IF u \in winners THEN Payout(bfr[u].amount) ELSE 0]
             losers_total_stake == SumOver([u \in DOMAIN bfr |-> bfr[u].amount], losers)
             winners_profit == SumOver([u \in DOMAIN bfr |-> Profit(bfr[u].amount)], winners)
             paid == {u \in DOMAIN payouts : payouts[u] > 0}
         IN  PayNext(StreakLose(users, DOMAIN payouts \ paid),
                     pot + losers_total_stake + ProfitCut(winners_profit),
                     [s EXCEPT !.dice = dice, !.side = side,
                               !.total = dice[1] + dice[2] + dice[3],
                               !.payouts = payouts, !.winners = winners,
                               !.todo = paid, !.pot_before = pot,
                               !.live = present,
                               !.streak_before =
                                   [u \in Users |-> IF u \in DOMAIN users
                                                    THEN users[u].streak ELSE 0]])
    /\ UNCHANGED <<deposit_requests, withdraw_requests, h, ncmd>>

\* lines 210-214: the store of the winner's balance, save, streak update;
\* then on to the next winner
S_PayWrite ==
    /\ s.pc = "pay_wr"
    /\ PayNext(StreakWin(add_balance(users, s.cur, s.tmp, s.payouts[s.cur]), s.cur), pot,
               [s EXCEPT !.cur = 0, !.tmp = 0, !.todo = @ \ {s.cur}])
    /\ UNCHANGED <<deposit_requests, withdraw_requests, h, ncmd>>

\* line 231: the store of the balance, save; then on to the next share
S_ShareWrite ==
    /\ s.pc = "jp_wr"
    /\ ShareNext(add_balance(users, s.cur, s.tmp, s.share), pot,
                 [s EXCEPT !.cur = 0, !.tmp = 0, !.share = 0, !.todo = @ \ {s.cur}])
    /\ UNCHANGED <<deposit_requests, withdraw_requests, h, ncmd>>

\* -------------------------------------------------------------- handlers
\* a flag test that finds the bonus due on every call
BonusAlwaysDue(us, u) == TRUE

\* line 109: the bonus is due while the flag is not set
BonusDue(us, u) == ~us[u].first_bonus_given

\* start_cmd -> give_first_bonus_if_needed, lines 107-110: the flag test and
\* the read of the balance
H_Start ==
    /\ TakeCmd
    /\ \E u \in Users :
         /\ users' = ensure_user(users, u)
         /\ IF BonusDue(users', u)
            THEN h' = [Begin("bonus_wr") EXCEPT !.uid = u, !.tmp = users'[u].balance]
            ELSE h' = Replied("start")
    /\ UNCHANGED <<round, bets, history, pot, deposit_requests, withdraw_requests, s>>

\* lines 110-113: the store of the balance, the flag, save
H_BonusWrite ==
    /\ h.pc = "bonus_wr"
    /\ users' = [add_balance(users, h.uid, h.tmp, INITIAL_BONUS)
                     EXCEPT ![h.uid].first_bonus_given = TRUE]
    /\ h' = Replied("start_bonus")
    /\ UNCHANGED <<round, bets, history, pot, deposit_requests, withdraw_requests, s, ncmd>>

\* a status test that turns bets away in an idle round only
BettingOpenUnlessIdle == round.status # "idle"

\* line 323: bets are taken only in an open round
BettingOpen == round.status = "open"

\* the checks of lines 334-339 alone, without the ceiling of the bonus
StakeCheckNoCeiling(us, u, amt) ==
    IF amt <= 0 THEN "invalid"
    ELSE IF amt > us[u].balance THEN "insufficient"
    ELSE "ok"

\* lines 330-339: the stake checks against the balance read at line 328
StakeCheck(us, u, amt) ==
    IF us[u].first_bonus_given /\ us[u].balance = INITIAL_BONUS /\ amt > MAX_BONUS_BET
    THEN "bonus_limit"
    ELSE IF amt <= 0 THEN "invalid"
    ELSE IF amt > us[u].balance THEN "insufficient"
    ELSE "ok"

\* handle_bet_command lines 310-341: the checks and the read of the balance
\* in sub_balance
H_Bet ==
    /\ TakeCmd
    /\ \E u \in Users, side \in Sides, amt \in BetAmounts :
         IF ~BettingOpen
         THEN /\ h' = Replied("bet_closed")
              /\ UNCHANGED users
         ELSE /\ users' = ensure_user(users, u)
              /\ IF StakeCheck(users', u, amt) = "ok"
                 THEN h' = [Begin("bet_wr") EXCEPT !.uid = u, !.amt = amt, !.side = side,
                                    !.rid = round.id, !.tmp = users'[u].balance]
                 ELSE h' = Replied(StakeCheck(users', u, amt))
    /\ UNCHANGED <<round, bets, history, pot, deposit_requests, withdraw_requests, s>>

\* line 341: the store of the balance in sub_balance, save
H_BetWrite ==
    /\ h.pc = "bet_wr"
    /\ users' = sub_balance(users, h.uid, h.tmp, h.amt)
    /\ h' = [h EXCEPT !.pc = "bet_rec", !.tmp = 0]
    /\ UNCHANGED <<round, bets, history, pot, deposit_requests, withdraw_requests, s, ncmd>>

\* lines 343-344: setdefault and the store of the bet under the user's key
RecordBet(bs, rid, u, side, amt) ==
    LET cur == IF rid \in DOMAIN bs THEN bs[rid] ELSE <<>>
        new == [x \in DOMAIN cur \cup {u} |->
                   IF x = u THEN [side |-> side, amount |-> amt] ELSE cur[x]]
    IN  [r \in DOMAIN bs \cup {rid} |-> IF r = rid THEN new ELSE bs[r]]

\* lines 343-345
H_BetRecord ==
    /\ h.pc = "bet_rec"
    /\ bets' = RecordBet(bets, h.rid, h.uid, h.side, h.amt)
    /\ h' = Replied("bet_accepted")
    /\ UNCHANGED <<users, round, history, pot, deposit_requests, withdraw_requests, s, ncmd>>

\* open_bet_cmd line 351-354: whether open_new_round is called
OpenAllowed(caller) == is_admin(caller)

\* open_bet_cmd lines 351-354 and the read of the round id at line 139
H_OpenBet ==
    /\ TakeCmd
    /\ \E caller \in Callers :
         IF OpenAllowed(caller)
         THEN /\ round.id < MaxRound
              /\ h' = [Begin("open_wr") EXCEPT !.tmp = round.id]
         ELSE h' = Replied("admin_only")
    /\ UNCHANGED <<data, s>>

\* open_new_round called from open_bet_cmd: the write of the id and the rest
H_OpenWrite ==
    /\ h.pc = "open_wr"
    /\ open_new_round(h.tmp)
    /\ s' = IF Settling /\ s.live /\ s.rid = round'.id
            THEN [s EXCEPT !.live = FALSE, !.bets_for_round = bets[s.rid]]
            ELSE s
    /\ h' = Replied("opened")
    /\ UNCHANGED <<users, history, pot, deposit_requests, withdraw_requests, ncmd>>

\* ------------------------------------------------------ deposit / withdraw
RequestIds(reqs) == {reqs[i].id : i \in 1..Len(reqs)}

\* lines 385, 416: int(time.time()*1000), the same millisecond as the last
\* request or a later one
NowMs ==
    LET ids == RequestIds(deposit_requests) \cup RequestIds(withdraw_requests)
        last == CHOOSE x \in ids : \A y \in ids : y <= x
    IN  IF ids = {} THEN {1} ELSE {last, last + 1}

\* lines 386, 417
NewRequest(rid, uid, amt) ==
    [id |-> rid, user_id |-> uid, amount |-> amt, status |-> "pending", admin_id |-> 0]

\* deposit_cmd lines 383-388
H_Deposit ==
    /\ TakeCmd
    /\ \E u \in Users, amt \in DepositAmounts, rid \in NowMs :
         deposit_requests' = Append(deposit_requests, NewRequest(rid, u, amt))
    /\ h' = Replied("deposit_sent")
    /\ UNCHANGED <<users, round, bets, history, pot, withdraw_requests, s>>

\* withdraw_cmd lines 407-419
H_Withdraw ==
    /\ TakeCmd
    /\ \E u \in Users, amt \in WithdrawAmounts, rid \in NowMs :
         IF amt < MIN_WITHDRAW
         THEN /\ h' = Replied("withdraw_min")
              /\ UNCHANGED <<users, withdraw_requests>>
         ELSE /\ users' = ensure_user(users, u)
              /\ IF users'[u].balance < amt
                 THEN /\ h' = Replied("withdraw_insufficient")
                      /\ UNCHANGED withdraw_requests
                 ELSE /\ h' = Replied("withdraw_sent")
                      /\ withdraw_requests' =
                             Append(withdraw_requests, NewRequest(rid, u, amt))
    /\ UNCHANGED <<round, bets, history, pot, deposit_requests, s>>

\* lines 438-439, 458-459: the index of the first request with this id, 0 if none
FindRequest(reqs, rid) ==
    IF rid \in RequestIds(reqs)
    THEN CHOOSE i \in 1..Len(reqs) : reqs[i].id = rid /\ \A j \in 1..(i - 1) : reqs[j].id # rid
    ELSE 0

\* lines 441-442, 453, 461, 472: the status an admin decision stores
Decide(reqs, i, status, admin) ==
    [reqs EXCEPT ![i].status = status, ![i].admin_id = admin]

\* callback_query_handler lines 433-443: approve_deposit up to the read of
\* the balance in add_balance
H_ApproveDeposit ==
    /\ TakeCmd
    /\ \E caller \in Callers, rid \in RequestIds(deposit_requests) :
         LET i == FindRequest(deposit_requests, rid)
         IN  IF is_admin(caller) /\ i # 0
             THEN /\ deposit_requests' = Decide(deposit_requests, i, "approved", caller)
                  /\ users' = ensure_user(users, deposit_requests[i].user_id)
                  /\ h' = [Begin("dep_wr") EXCEPT !.uid = deposit_requests[i].user_id,
                                     !.amt = deposit_requests[i].amount,
                                     !.tmp = users'[deposit_requests[i].user_id].balance]
             ELSE /\ h' = Replied(IF is_admin(caller) THEN "no_answer" ELSE "admin_only")
                  /\ UNCHANGED <<deposit_requests, users>>
    /\ UNCHANGED <<round, bets, history, pot, withdraw_requests, s>>

\* lines 443-444: the store of the balance, save
H_DepositWrite ==
    /\ h.pc = "dep_wr"
    /\ users' = add_balance(users, h.uid, h.tmp, h.amt)
    /\ h' = Replied("deposit_approved")
    /\ UNCHANGED <<round, bets, history, pot, deposit_requests, withdraw_requests, s, ncmd>>

\* lines 452-455: deny_deposit
H_DenyDeposit ==
    /\ TakeCmd
    /\ \E caller \in Callers, rid \in RequestIds(deposit_requests) :
         LET i == FindRequest(deposit_requests, rid)
         IN  IF is_admin(caller) /\ i # 0
             THEN /\ deposit_requests' = Decide(deposit_requests, i, "denied", caller)
                  /\ h' = Replied("deposit_denied")
             ELSE /\ h' = Replied(IF is_admin(caller) THEN "no_answer" ELSE "admin_only")
                  /\ UNCHANGED deposit_requests
    /\ UNCHANGED <<users, round, bets, history, pot, withdraw_requests, s>>

\* lines 456-463: approve_withdraw up to the read of the balance in sub_balance
H_ApproveWithdraw ==
    /\ TakeCmd
    /\ \E caller \in Callers, rid \in RequestIds(withdraw_requests) :
         LET i == FindRequest(withdraw_requests, rid)
         IN  IF is_admin(caller) /\ i # 0
             THEN /\ withdraw_requests' = Decide(withdraw_requests, i, "approved", caller)
                  /\ users' = ensure_user(users, withdraw_requests[i].user_id)
                  /\ h' = [Begin("wd_wr") EXCEPT !.uid = withdraw_requests[i].user_id,
                                     !.amt = withdraw_requests[i].amount,
                                     !.tmp = users'[withdraw_requests[i].user_id].balance]
             ELSE /\ h' = Replied(IF is_admin(caller) THEN "no_answer" ELSE "admin_only")
                  /\ UNCHANGED <<withdraw_requests, users>>
    /\ UNCHANGED <<round, bets, history, pot, deposit_requests, s>>

\* lines 463-464: the store of the balance, save
H_WithdrawWrite ==
    /\ h.pc = "wd_wr"
    /\ users' = sub_balance(users, h.uid, h.tmp, h.amt)
    /\ h' = Replied("withdraw_approved")
    /\ UNCHANGED <<round, bets, history, pot, deposit_requests, withdraw_requests, s, ncmd>>

\* lines 471-474: deny_withdraw
H_DenyWithdraw ==
    /\ TakeCmd
    /\ \E caller \in Callers, rid \in RequestIds(withdraw_requests) :
         LET i == FindRequest(withdraw_requests, rid)
         IN  IF is_admin(caller) /\ i # 0
             THEN /\ withdraw_requests' = Decide(withdraw_requests, i, "denied", caller)
                  /\ h' = Replied("withdraw_denied")
             ELSE /\ h' = Replied(IF is_admin(caller) THEN "no_answer" ELSE "admin_only")
                  /\ UNCHANGED withdraw_requests
    /\ UNCHANGED <<users, round, bets, history, pot, deposit_requests, s>>

\* ------------------------------------------------------------ admin config
\* admin_setnext lines 499-510
H_SetNext ==
    /\ TakeCmd
    /\ \E caller \in Callers, val \in SetNextValues :
         IF is_admin(caller)
         THEN /\ round' = [round EXCEPT !.forced_next = IF val = "NONE" THEN "None" ELSE val]
              /\ h' = Replied("forced_set")
         ELSE /\ h' = Replied("admin_only")
              /\ UNCHANGED round
    /\ UNCHANGED <<users, bets, history, pot, deposit_requests, withdraw_requests, s>>

\* admin_setbias lines 514-527
H_SetBias ==
    /\ TakeCmd
    /\ \E caller \in Callers, v \in BiasValues :
         IF is_admin(caller)
         THEN /\ round' = [round EXCEPT !.bias = v]
              /\ h' = Replied("bias_set")
         ELSE /\ h' = Replied("admin_only")
              /\ UNCHANGED round
    /\ UNCHANGED <<users, bets, history, pot, deposit_requests, withdraw_requests, s>>

\* admin_credit lines 536-544 up to the read of the balance in add_balance
H_Credit ==
    /\ TakeCmd
    /\ \E caller \in Callers, u \in Users, amt \in DepositAmounts :
         IF is_admin(caller)
         THEN /\ users' = ensure_user(users, u)
              /\ h' = [Begin("credit_wr") EXCEPT !.uid = u, !.amt = amt,
                                 !.tmp = users'[u].balance]
         ELSE /\ h' = Replied("admin_only")
              /\ UNCHANGED users
    /\ UNCHANGED <<round, bets, history, pot, deposit_requests, withdraw_requests, s>>

\* line 544 -> add_balance: the store of the balance, save
H_CreditWrite ==
    /\ h.pc = "credit_wr"
    /\ users' = add_balance(users, h.uid, h.tmp, h.amt)
    /\ h' = Replied("credited")
    /\ UNCHANGED <<round, bets, history, pot, deposit_requests, withdraw_requests, s, ncmd>>

Next ==
    \/ S_Loop \/ S_OpenWrite \/ S_Close \/ S_Roll \/ S_PayWrite \/ S_ShareWrite
    \/ H_Start \/ H_BonusWrite \/ H_Bet \/ H_BetWrite \/ H_BetRecord
    \/ H_OpenBet \/ H_OpenWrite
    \/ H_Deposit \/ H_Withdraw \/ H_ApproveDeposit \/ H_DepositWrite \/ H_DenyDeposit
    \/ H_ApproveWithdraw \/ H_WithdrawWrite \/ H_DenyWithdraw
    \/ H_SetNext \/ H_SetBias \/ H_Credit \/ H_CreditWrite

Spec == Init /\ [][Next]_vars

\* --------------------------------------------- scheduler with failing saves
\* open_new_round with save_data (line 145) raising: id, status and bet table
\* are written in memory, the exception ends the iteration at line 617 and
\* the loop goes on after the pause of line 626
S_OpenSaveFails ==
    /\ s.pc = "open_wr"
    /\ open_new_round(s.tmp)
    /\ s' = [s EXCEPT !.pc = "loop", !.tmp = 0]
    /\ UNCHANGED <<users, history, pot, deposit_requests, withdraw_requests, h, ncmd>>

\* close_betting_and_roll with save_data (line 154) raising: the status is
\* 'closed' in memory, the exception ends the iteration at line 617 and the
\* loop goes on after the pause of line 626
S_CloseSaveFails ==
    /\ s.pc = "wait"
    /\ round.status = "open"
    /\ round' = [round EXCEPT !.status = "closed"]
    /\ s' = [s EXCEPT !.pc = "loop"]
    /\ UNCHANGED <<users, bets, history, pot, deposit_requests, withdraw_requests, h, ncmd>>

\* one step of the scheduler thread
SchedulerStep ==
    \/ S_Loop \/ S_OpenWrite \/ S_OpenSaveFails \/ S_Close \/ S_CloseSaveFails
    \/ S_Roll \/ S_PayWrite \/ S_ShareWrite

\* the scheduler and the bet handler
LiveNext == SchedulerStep \/ H_Bet \/ H_BetWrite \/ H_BetRecord

\* the scheduler thread keeps running (stop_event is never set); nothing is
\* assumed about the commands users send
LiveSpec == Init /\ [][LiveNext]_vars /\ WF_vars(SchedulerStep)

\* ------------------------------------------------ settlement on its own
\* The settlement of one round with no command arriving meanwhile, started
\* from data.json as an earlier round left it: round 2 is open with the bets
\* already placed (stakes debited from a balance of 10000), and the pot holds
\* what the loser of round 1 staked.  The stakes are multiples of 100, for
\* which the float products of lines 194 and 202 are whole numbers.
StakeValues == {300, 500, 700, 1000, 2000}
PotValues == {0, 709, 4418}
StartBalances == {10000}

\* data['bets'][rid]: every user has no bet or one bet
BetTables == UNION {[U -> [side : Sides, amount : StakeValues]] : U \in SUBSET Users}

\* the history record round 1 left when its only bet, p on Tai, lost
EarlierRound(p) ==
    [id |-> 1, dice |-> <<1, 2, 3>>, total |-> 6, side |-> "X",
     bets |-> IF p = 0 THEN <<>> ELSE (1 :> [side |-> "T", amount |-> p]),
     payouts |-> IF p = 0 THEN <<>> ELSE (1 :> 0),
     pot_before |-> 0, pot_after |-> p, distributed_from_pot |-> 0]

SettleInit ==
    \E bt \in BetTables, p \in PotValues, b \in StartBalances :
        /\ users = [u \in Users |->
                       [NewUser EXCEPT !.balance =
                            b - (IF u \in DOMAIN bt THEN bt[u].amount ELSE 0)]]
        /\ round = [id |-> 2, status |-> "open", forced_next |-> "None", bias |-> -1]
        /\ bets = (2 :> bt)
        /\ history = <<EarlierRound(p)>>
        /\ pot = p
        /\ deposit_requests = <<>>
        /\ withdraw_requests = <<>>
        /\ h = HIdle
        /\ s = [SIdle EXCEPT !.pc = "wait"]
        /\ ncmd = 0

\* scheduler_loop line 611: close_betting_and_roll, step by step
SettleNext == S_Close \/ S_Roll \/ S_PayWrite \/ S_ShareWrite

SettleSpec == SettleInit /\ [][SettleNext]_vars

\* ------------------------------------------------------ the roll on its own
\* The roll of lines 157-174 with generate_dice_for_side as the loop it is,
\* over all 216 triples, for a closed round without bets; forced_next and
\* bias are what the admin commands left.
DICE_ATTEMPTS == 200

\* lines 172, 260, 266: [random.randint(1,6) for _ in range(3)]
AllDice == {<<a, b, c>> : a \in 1..6, b \in 1..6, c \in 1..6}

\* a side test that takes every triple
MatchesAnySide(d, side) == TRUE

\* lines 261-263: the triple's side is the wanted one
MatchesSide(d, side) == SideOf(d) = side

\* the locals of the roll: the side asked of generate_dice_for_side, the
\* attempts made, whether the triple is the fallback of line 266
DiceStart ==
    [want |-> "-", attempt |-> 0, fallback |-> FALSE] @@ [SIdle EXCEPT !.pc = "roll", !.rid = 1]

DiceInit ==
    \E forced \in {"None", "T", "X"}, bias \in {-1} \cup BiasValues :
        /\ users = <<>>
        /\ round = [id |-> 1, status |-> "closed", forced_next |-> forced, bias |-> bias]
        /\ bets = (1 :> <<>>)
        /\ history = <<>>
        /\ pot = 0
        /\ deposit_requests = <<>>
        /\ withdraw_requests = <<>>
        /\ h = HIdle
        /\ s = DiceStart
        /\ ncmd = 0

\* lines 157-172: the forced side, the side sampled with the bias, or an
\* unconstrained roll
D_Begin ==
    /\ s.pc = "roll"
    /\ IF round.forced_next \in {"T", "X"}
       THEN s' = [s EXCEPT !.pc = "gen", !.want = round.forced_next]
       ELSE IF round.bias >= 0
       THEN \E sd \in BiasSides(round.bias) : s' = [s EXCEPT !.pc = "gen", !.want = sd]
       ELSE \E d \in AllDice : s' = [s EXCEPT !.pc = "rolled", !.dice = d]
    /\ UNCHANGED <<data, h, ncmd>>

\* lines 259-264: one pass of the loop
G_Attempt ==
    /\ s.pc = "gen"
    /\ s.attempt < DICE_ATTEMPTS
    /\ \E d \in AllDice :
         IF MatchesSide(d, s.want)
         THEN s' = [s EXCEPT !.pc = "rolled", !.attempt = @ + 1, !.dice = d]
         ELSE s' = [s EXCEPT !.attempt = @ + 1]
    /\ UNCHANGED <<data, h, ncmd>>

\* line 266: the loop is over, any triple is returned
G_Fallback ==
    /\ s.pc = "gen"
    /\ s.attempt = DICE_ATTEMPTS
    /\ \E d \in AllDice : s' = [s EXCEPT !.pc = "rolled", !.dice = d, !.fallback = TRUE]
    /\ UNCHANGED <<data, h, ncmd>>

\* lines 173-174 and 234-251 for a round without bets: total, side, history
\* record, cleanup
D_Record ==
    /\ s.pc = "rolled"
    /\ Finish(users, pot,
              [SIdle EXCEPT !.rid = s.rid, !.dice = s.dice,
                            !.total = s.dice[1] + s.dice[2] + s.dice[3],
                            !.side = SideOf(s.dice)])
    /\ UNCHANGED <<deposit_requests, withdraw_requests, h, ncmd>>

DiceNext == D_Begin \/ G_Attempt \/ G_Fallback \/ D_Record

\* the scheduler thread keeps running
DiceSpec == DiceInit /\ [][DiceNext]_vars /\ WF_vars(DiceNext)

\* ------------------------------------------------------------------ claims
\* C1: a bet command issued while the round status is not 'open' is refused
\* and leaves every balance, the bet table and the pot unchanged.
C1_BetRefusedOutsideOpen ==
    [][(H_Bet /\ round.status # "open")
          => (h' = Replied("bet_closed") /\ UNCHANGED <<users, bets, pot>>)]_vars

\* a bet was refused after a round had been resolved
C1_Witness ==
    /\ h.reply = "bet_closed"
    /\ round.status = "idle"
    /\ Len(history) > 0

\* the stakes recorded for round rid
StakeSum(bs, rid) ==
    IF rid \in DOMAIN bs
    THEN SumOver([u \in DOMAIN bs[rid] |-> bs[rid][u].amount], DOMAIN bs[rid])
    ELSE 0

\* C2: the amounts debited at placement add up to the stakes recorded in the
\* round's bet set: every accepted bet, whose stake h.amt was debited at line
\* 341, raises the recorded stakes of its round by that stake.
C2_DebitsEqualRecordedStakes ==
    [][(h.pc = "bet_rec" /\ h'.pc # "bet_rec")
          => StakeSum(bets', h.rid) = StakeSum(bets, h.rid) + h.amt]_vars

\* C3: every user's balance is >= 0 in every reachable state.
C3_BalancesNonNegative == \A u \in DOMAIN users : users[u].balance >= 0

\* C4: a round id gets at most one settlement, hence one history record.
C4_OneRecordPerRound ==
    \A i, j \in 1..Len(history) : history[i].id = history[j].id => i = j

\* C4, the second invocation: close_betting_and_roll on a round that is not
\* open changes nothing.
C4_CloseIsNoOp ==
    [][(s.pc = "wait" /\ s'.pc # "wait" /\ round.status # "open") => UNCHANGED data]_vars

StatusCycle == {<<"idle", "open">>, <<"open", "closed">>, <<"closed", "idle">>}

\* C5: a round is opened only from idle: outside idle no round id is
\* allocated, and the status only moves idle -> open -> closed -> idle.
C5_OpenOnlyFromIdle ==
    [][/\ round.status # "idle" => round'.id = round.id
       /\ round'.status # round.status => <<round.status, round'.status>> \in StatusCycle]_vars

\* C6: no debited stake stays in a bet set that no resolution will reach:
\* close_betting_and_roll settles data['bets'][round id] only, and opening
\* round r empties data['bets'][r], so stakes recorded under another id
\* than the current one are never settled.
C6_NoStrandedStake == \A r \in DOMAIN bets : bets[r] # <<>> => r = round.id

\* C7: no stake is debited and no bet recorded once the round the bet was
\* placed for has been moved to closed.
C7_NoBetAfterClose ==
    [][(h.pc \in {"bet_wr", "bet_rec"} /\ h'.pc # h.pc)
          => (round.status = "open" /\ round.id = h.rid)]_vars

\* the amount a pending balance store of the scheduler / of the handler applies
SchedulerDelta == IF s.pc = "pay_wr" THEN s.payouts[s.cur] ELSE s.share

HandlerDelta ==
    IF h.pc = "bonus_wr" THEN INITIAL_BONUS
    ELSE IF h.pc \in {"dep_wr", "credit_wr"} THEN h.amt
    ELSE 0 - h.amt

\* C8: no lost update: every credit or debit changes the user's balance by
\* exactly its amount, whatever the other thread did since the balance was read.
C8_NoLostUpdate ==
    [][/\ (s.pc \in {"pay_wr", "jp_wr"} /\ s' # s)
            => users'[s.cur].balance = users[s.cur].balance + SchedulerDelta
       /\ (h.pc \in {"bonus_wr", "bet_wr", "dep_wr", "wd_wr", "credit_wr"} /\ h' # h)
            => users'[h.uid].balance = users[h.uid].balance + HandlerDelta]_vars

\* C9: every call of open_new_round yields an id above the ids before it.
C9_OpenYieldsFreshId ==
    [][((s.pc = "open_wr" /\ s'.pc # "open_wr") \/ (h.pc = "open_wr" /\ h'.pc # "open_wr"))
          => round'.id > round.id]_vars

\* C9: the ids of the history records are strictly increasing.
C9_HistoryIdsIncrease ==
    \A i, j \in 1..Len(history) : i < j => history[i].id < history[j].id

\* C10: when a round is resolved, every user with a bet in it has streak 0
\* if the bet lost and one more than before the round if it won.
C10_StreakAfterRound ==
    [][Len(history') > Len(history)
          => LET rec == history'[Len(history')]
             IN  \A u \in DOMAIN rec.bets :
                    users'[u].streak =
                        IF rec.bets[u].side = rec.side THEN s.streak_before[u] + 1 ELSE 0]_vars

\* C10 for the bets the settlement has read (the keys of payouts).
C10_StreakAfterSettledBets ==
    [][Len(history') > Len(history)
          => LET rec == history'[Len(history')]
             IN  \A u \in DOMAIN rec.payouts :
                    users'[u].streak =
                        IF rec.payouts[u] > 0 THEN s.streak_before[u] + 1 ELSE 0]_vars

\* C10: streak <= best_streak for every user.
C10_StreakBelowBest == \A u \in DOMAIN users : users[u].streak <= users[u].best_streak

\* three ones or three sixes
TripleOneOrSix(dice) == dice[1] = dice[2] /\ dice[2] = dice[3] /\ dice[1] \in {1, 6}

\* the users a history record shows a payout for
PaidIn(rec) == {u \in DOMAIN rec.payouts : rec.payouts[u] > 0}

\* C11: right after a resolution with dice 1,1,1 or 6,6,6 and at least one
\* winner the pot is 0; in every other resolution the jackpot step leaves the
\* pot alone, credits no share and distributed_from_pot is 0.
C11_JackpotDrainsPot ==
    [][/\ s'.pc = "jp_wr" => (TripleOneOrSix(s'.dice) /\ s'.winners # {})
       /\ Len(history') > Len(history)
            => LET rec == history'[Len(history')]
               IN  IF TripleOneOrSix(rec.dice) /\ PaidIn(rec) # {}
                   THEN pot' = 0 /\ rec.pot_after = 0
                   ELSE /\ rec.distributed_from_pot = 0
                        /\ s.pc # "jp_wr"
                        /\ rec.pot_after = pot'
                        /\ s.pc = "pay_wr" => pot' = pot]_vars

\* a jackpot round with a winner has been resolved and has drained a pot
C11_Witness ==
    /\ Len(history) > 0
    /\ TripleOneOrSix(history[Len(history)].dice)
    /\ PaidIn(history[Len(history)]) # {}
    /\ history[Len(history)].distributed_from_pot > 0
    /\ pot = 0
\* the stakes a history record lists
StakesIn(rec) == SumOver([u \in DOMAIN rec.bets |-> rec.bets[u].amount], DOMAIN rec.bets)

\* C12: in a resolved round without a jackpot the payouts credited plus the
\* amount the round added to the pot stay within the stakes times 1.97,
\* rounded up.
C12_PayoutsAndPotWithinStakes ==
    \A i \in 1..Len(history) :
        LET rec == history[i]
        IN  rec.distributed_from_pot = 0
                => SumOver(rec.payouts, DOMAIN rec.payouts) + (rec.pot_after - rec.pot_before)
                       <= (197 * StakesIn(rec) + 99) \div 100
\* the stakes of the bets of a history record that were paid nothing
LostStakesIn(rec) ==
    SumOver([u \in DOMAIN rec.payouts |-> rec.bets[u].amount], DOMAIN rec.payouts \ PaidIn(rec))

\* the part of a round's pot contribution that is the cut of the winners' profit
CutIn(rec) == rec.pot_after - rec.pot_before - LostStakesIn(rec)

\* C15: the cut is taken out of the winners' payout: in a resolved round
\* (without a jackpot, where the pot is drained) the amount credited to the
\* winners plus the cut added to the pot is the sum over the winners of
\* round(stake x 1.97).
C15_CutComesOutOfPayout ==
    \A i \in 1..Len(history) :
        LET rec == history[i]
        IN  (rec.distributed_from_pot = 0 /\ PaidIn(rec) # {})
                => SumOver(rec.payouts, PaidIn(rec)) + CutIn(rec)
                       = SumOver([u \in DOMAIN rec.payouts |->
                                      RoundDiv(197 * rec.bets[u].amount, 100)], PaidIn(rec))
\* what the resolution owes the bet of user u in record rec
Owed(rec, u) ==
    IF rec.bets[u].side = rec.side THEN RoundDiv(197 * rec.bets[u].amount, 100) ELSE 0

AddedToPot(rec) ==
    (IF rec.distributed_from_pot > 0 THEN rec.distributed_from_pot ELSE rec.pot_after)
        - rec.pot_before

\* the users of a record whose bet is on the resolved side
OnSide(rec) == {u \in DOMAIN rec.bets : rec.bets[u].side = rec.side}

\* C14: every resolution adds to the pot, before any jackpot drain, exactly
\* the sum of the losing stakes plus round(0.30 x the sum over the winners of
\* round(stake x 0.97)).
C14_PotContribution ==
    Len(history) = 2
        => LET rec == history[2]
               lost == SumOver([u \in DOMAIN rec.bets |-> rec.bets[u].amount],
                               DOMAIN rec.bets \ OnSide(rec))
               profit == SumOver([u \in DOMAIN rec.bets |->
                                     RoundDiv(97 * rec.bets[u].amount, 100)], OnSide(rec))
           IN  AddedToPot(rec) = lost + RoundDiv(30 * profit, 100)

\* a winning bet of 1000 and a losing bet of 500 added 291 + 500 to the pot
C14_Witness ==
    /\ Len(history) = 2
    /\ \E u, v \in DOMAIN history[2].bets :
          /\ history[2].bets[u] = [side |-> history[2].side, amount |-> 1000]
          /\ history[2].bets[v].side # history[2].side
          /\ history[2].bets[v].amount = 500
    /\ AddedToPot(history[2]) = 791
\* the stakes of the bets of a record on the resolved side
WonStakesIn(rec) == SumOver([u \in DOMAIN rec.bets |-> rec.bets[u].amount], OnSide(rec))

Final(reqs, reqs2) ==
    \A i \in 1..Len(reqs) : reqs[i].status # "pending" => reqs2[i] = reqs[i]

\* C18: an admin decision is final: a decided request keeps its status, and
\* an approval that goes on to credit or debit a balance is the approval of
\* a request that was pending.
C18_DecisionFinal ==
    [][/\ Final(deposit_requests, deposit_requests')
       /\ Final(withdraw_requests, withdraw_requests')
       /\ (h.pc = "idle" /\ h'.pc = "dep_wr")
            => \E i \in 1..Len(deposit_requests) :
                  /\ deposit_requests[i].status = "pending"
                  /\ deposit_requests'[i].status = "approved"
       /\ (h.pc = "idle" /\ h'.pc = "wd_wr")
            => \E i \in 1..Len(withdraw_requests) :
                  /\ withdraw_requests[i].status = "pending"
                  /\ withdraw_requests'[i].status = "approved"]_vars
\* C20: the first bonus is granted once per user: the grant (the call that
\* returns true) happens only while the flag is unset, credits 10000 and sets
\* the flag; the flag is never unset again; and a call that returns false
\* changes no user.
C20_BonusOnce ==
    [][/\ (h.pc = "bonus_wr" /\ h' # h)
            => /\ ~users[h.uid].first_bonus_given
               /\ users'[h.uid].first_bonus_given
               /\ users'[h.uid].balance = h.tmp + 10000
               /\ h'.reply = "start_bonus"
       /\ \A u \in DOMAIN users :
              users[u].first_bonus_given => (u \in DOMAIN users' /\ users'[u].first_bonus_given)
       /\ (ncmd' # ncmd /\ h'.reply = "start") => UNCHANGED users]_vars

\* a user who was granted the bonus has called again and was granted nothing
C20_Witness ==
    /\ h.reply = "start"
    /\ \E u \in Users :
          /\ DOMAIN users = {u}
          /\ users[u].first_bonus_given
          /\ users[u].balance = 10000
\* C19: whatever raises in open_new_round or close_betting_and_roll, the
\* scheduler goes on and the round gets resolved: a round that is closed
\* is eventually back to idle.
C19_ClosedLeadsToIdle == (round.status = "closed") ~> (round.status = "idle")
\* C21: every history record is consistent: each die is in 1..6, total is
\* the sum of the dice, and the side is T exactly when 11 <= total <= 17 and
\* X when total is in 3..10 or is 18.
C21_RecordConsistent ==
    \A i \in 1..Len(history) :
        LET rec == history[i]
        IN  /\ Len(rec.dice) = 3
            /\ \A k \in 1..3 : rec.dice[k] \in 1..6
            /\ rec.total = rec.dice[1] + rec.dice[2] + rec.dice[3]
            /\ rec.side = "T" <=> (11 <= rec.total /\ rec.total <= 17)
            /\ rec.side = "X" <=> (rec.total \in 3..10 \/ rec.total = 18)

\* a round with total 18 is in the history as Xiu
C21_Witness ==
    /\ Len(history) = 1
    /\ history[1].dice = <<6, 6, 6>>
    /\ history[1].total = 18
    /\ history[1].side = "X"

\* C22: generate_dice_for_side terminates: it makes at most 200 attempts, a
\* triple it returns has the requested side unless it is the fallback made
\* after 200 failed attempts, and every call returns.
C22_GenerationBounded ==
    /\ [](s.pc \in {"gen", "rolled"}
            => /\ s.attempt <= 200
               /\ (s.pc = "rolled" /\ s.want # "-")
                    => \/ SideOf(s.dice) = s.want /\ ~s.fallback
                       \/ s.fallback /\ s.attempt = 200)
    /\ (s.pc = "gen") ~> (s.pc = "rolled")

\* after 200 failed attempts the fallback has returned a triple of the other side
C22_Witness ==
    /\ s.pc = "rolled"
    /\ s.fallback
    /\ s.attempt = 200
    /\ s.want = "T"
    /\ SideOf(s.dice) = "X"
\* C23: the step that completes a resolution (the history record is
\* appended) leaves forced_next at none and bias as it was, and bias changes
\* only in the admin's set-bias command.
C23_ForcedClearedBiasKept ==
    [][ /\ Len(history') > Len(history)
            => /\ round'.forced_next = "None"
               /\ round'.bias = round.bias
        /\ round'.bias # round.bias
            => /\ ncmd' # ncmd
               /\ h'.reply = "bias_set" ]_vars

\* a round has been resolved as Xiu under a bias of 1.0 for Tai, the last
\* command was the admin's set-next, and forced_next is none again
C23_Witness ==
    /\ Len(history) > 0
    /\ history[Len(history)].side = "X"
    /\ round.status = "idle"
    /\ round.bias = 100
    /\ round.forced_next = "None"
    /\ h.reply = "forced_set"

\* C24: no two deposit requests and no two withdraw requests carry the same id.
C24_RequestIdsUnique ==
    /\ \A i, j \in 1..Len(deposit_requests) :
          i # j => deposit_requests[i].id # deposit_requests[j].id
    /\ \A i, j \in 1..Len(withdraw_requests) :
          i # j => withdraw_requests[i].id # withdraw_requests[j].id

\* C25: a bet that is accepted has 0 < stake <= the user's balance and is
\* not a stake above 1000 of a user whose bonus is granted and whose balance
\* is exactly 10000; a bet that is rejected leaves every balance and the bet
\* table as they were.
C25_BetStakeChecked ==
    [][ /\ (h.pc = "idle" /\ h'.pc = "bet_wr")
            => LET u == h'.uid
                   amt == h'.amt
               IN  /\ 0 < amt
                   /\ amt <= users'[u].balance
                   /\ ~(/\ users'[u].first_bonus_given
                        /\ users'[u].balance = 10000
                        /\ amt > 1000)
        /\ (ncmd' # ncmd /\ h'.reply \in {"bonus_limit", "invalid", "insufficient", "bet_closed"})
            => /\ bets' = bets
               /\ \A u \in DOMAIN users : users'[u] = users[u]
               /\ \A u \in DOMAIN users' \ DOMAIN users : users'[u].balance = 0 ]_vars

\* a bet has been rejected for the bonus ceiling and the user still holds
\* the bonus of 10000
C25_Witness ==
    /\ h.reply = "bonus_limit"
    /\ round.status = "open"
    /\ \E u \in DOMAIN users :
          /\ users[u].first_bonus_given
          /\ users[u].balance = 10000
          /\ \A r \in DOMAIN bets : u \notin DOMAIN bets[r]

\* what the jackpot step has credited to the winners of rec on top of
\* their payouts
SharesCredited(rec, b) ==
    SumOver([u \in DOMAIN rec.bets |->
                 users[u].balance - (b - rec.bets[u].amount + Owed(rec, u))],
            OnSide(rec))

\* C26: in a jackpot distribution the shares credited to the winners sum to
\* no more than distributed_from_pot, the pot that was drained.
C26_SharesWithinPot ==
    (Len(history) = 2 /\ history[2].distributed_from_pot > 0)
        => \A b \in StartBalances :
              SharesCredited(history[2], b) <= history[2].distributed_from_pot

====
